---------------------------- MODULE Spec2Model ----------------------------
(***************************************************************************)
(* Model of the caching / expiry core of Backend/server.js:                *)
(*   - class MinHeap and its instance ttlHeap (the expiry scheduler),      *)
(*   - urlCache (a JavaScript Map used as an LRU cache) with addToCache    *)
(*     and getFromCache,                                                   *)
(*   - the setInterval sweeper, POST /shorten and GET /:shortCode, with    *)
(*     the Url collection of the durable store.                            *)
(*                                                                         *)
(* Array indices are the 0-based indices of the source; a TLA+ sequence    *)
(* holds element i of the source at position i + 1.                        *)
(*                                                                         *)
(* operationLog and heapOperationLog hold, of every record, its type and   *)
(* its key.  The server's handlers and the sweeper write them; the         *)
(* specifications of the heap alone and of the cache alone hide them (they *)
(* stay empty there), since no method reads them back.                     *)
(***************************************************************************)
EXTENDS Integers, Sequences, FiniteSets, TLC

VARIABLES
    heap,       \* ttlHeap.heap: sequence of [shortCode, expiresAt]
    urlCache,   \* urlCache: the Map in insertion order, sequence of [key, url]
    store,      \* the Url collection: shortCode -> <<>> or <<document>>
    now,        \* the wall clock read by new Date()
    req,        \* the request handlers in flight: where each one is, and its locals
    sw,         \* the sweeper callbacks in flight: where each one is, and its locals
    nreq,       \* the number of requests admitted so far
    latest,     \* history: the expiry instant of the newest record of each code, 0 for none
    recency,    \* history: the cached keys, least recently touched first
    last,       \* history: the operation that produced this state and its result
    operationLog,       \* operationLog: the records logOperation has kept
    heapOperationLog    \* heapOperationLog: the records logHeapOperation has kept

vars == <<heap, urlCache, store, now, req, sw, nreq, latest, recency, last,
          operationLog, heapOperationLog>>

(***************************************************************************)
(* Bounds of the model.                                                    *)
(***************************************************************************)
MaxHeap == 6        \* most entries the heap holds in the heap specifications
MaxTime == 2        \* the clock of the server specification runs from 0 to MaxTime
MaxReq == 3         \* most requests the server specification admits
MaxLogged == 3      \* most records the two logs hold in SpecLogged

AllCodes == <<"a", "b", "c", "d", "e", "f", "g", "h">>
Codes(n) == {AllCodes[i] : i \in 1..n}
AllUrls == <<"u1", "u2", "u3">>
Urls(n) == {AllUrls[i] : i \in 1..n}

\* The number of levels of a binary heap of n entries.
RECURSIVE Levels(_)
Levels(n) == IF n <= 1 THEN n ELSE 1 + Levels(n \div 2)

\* The heap specifications draw expiry instants from as many values as the heap
\* has levels, so that a root-to-leaf path can be strictly ordered either way.
HeapCodes == Codes(2)
Instants == 1..Levels(MaxHeap)

Entry(shortCode, expiresAt) == [shortCode |-> shortCode, expiresAt |-> expiresAt]

\* The record of a call of logOperation or logHeapOperation: its type and key.
LogCall(type, key) == [type |-> type, key |-> key]

(***************************************************************************)
(* The server's state besides the heap and the cache.                      *)
(***************************************************************************)
SysCodes == Codes(2)
SysUrls == Urls(1)
Procs == {"p1", "p2"}
Ticks == {"t1", "t2"}
Durations == {1, 2}
ClickLimits == {1}

\* A document of the Url collection (urlSchema).  expiryType "none" is null;
\* expiresAt and maxClicks are 0 when null.
Doc(id, shortCode, url, expiryType, expiresAt, maxClicks) ==
    [id |-> id, shortCode |-> shortCode, url |-> url, clicks |-> 0,
     expiryType |-> expiryType, expiresAt |-> expiresAt, maxClicks |-> maxClicks]

NoPolicy == [type |-> "none", value |-> 0]
TimePolicies == {[type |-> "time", value |-> d] : d \in Durations}
ClickPolicies == {[type |-> "clicks", value |-> n] : n \in ClickLimits}
Policies == {NoPolicy} \cup TimePolicies \cup ClickPolicies

\* stale and raced are history: what was true of the request's key when it was
\* admitted, and the record the handler was expiring while a sweeper callback
\* held an entry of its key (<<>> for none).
IdleReq == [pc |-> "idle", code |-> "", url |-> "", data |-> <<>>, alias |-> "",
            policy |-> NoPolicy, forceNew |-> FALSE, stale |-> FALSE, id |-> 0,
            raced |-> <<>>]

\* raced is history: the record a handler was expiring while the callback held
\* an entry of its key, the last such record of this callback (<<>> for none).
IdleTick == [pc |-> "idle", expired |-> <<>>, raced |-> <<>>]

\* The handler r is expiring key k: it found the record of k expired and has
\* not answered yet.
Expiring(r, k) ==
    r.pc \in {"hitDelete", "hitDeleted", "missDelete", "missDeleted"} /\ r.code = k

\* The sweeper callback c holds an entry of key k: it extracted it and has not
\* removed k from the cache yet.
Holding(c, k) == c.pc # "idle" /\ c.expired[1].shortCode = k

ServerAtRest ==
    /\ store = [k \in SysCodes |-> <<>>]
    /\ now = 0
    /\ req = [p \in Procs |-> IdleReq]
    /\ sw = [t \in Ticks |-> IdleTick]
    /\ nreq = 0
    /\ latest = [k \in SysCodes |-> 0]
    /\ operationLog = <<>>
    /\ heapOperationLog = <<>>

(***************************************************************************)
(* class MinHeap.  Every method is an operator from the array before the   *)
(* call to [heap |-> the array after the call, ret |-> what it returns,    *)
(* logged |-> the calls of logHeapOperation it makes]; null is the empty   *)
(* sequence and an entry e is <<e>>.                                       *)
(***************************************************************************)
getParentIndex(i) == (i - 1) \div 2
getLeftChildIndex(i) == 2 * i + 1
getRightChildIndex(i) == 2 * i + 2
hasParent(i) == getParentIndex(i) >= 0
hasLeftChild(h, i) == getLeftChildIndex(i) < Len(h)
hasRightChild(h, i) == getRightChildIndex(i) < Len(h)
parent(h, i) == h[getParentIndex(i) + 1]
leftChild(h, i) == h[getLeftChildIndex(i) + 1]
rightChild(h, i) == h[getRightChildIndex(i) + 1]

swap(h, i, j) == [h EXCEPT ![i + 1] = h[j + 1], ![j + 1] = h[i + 1]]

RECURSIVE heapifyUpLoop(_, _)
heapifyUpLoop(h, index) ==
    IF hasParent(index) /\ parent(h, index).expiresAt > h[index + 1].expiresAt
    THEN heapifyUpLoop(swap(h, getParentIndex(index), index), getParentIndex(index))
    ELSE h

\* heapifyUp() always starts at the last index of the array.
heapifyUp(h) == heapifyUpLoop(h, Len(h) - 1)

smallerChildLeftOnly(h, index) == getLeftChildIndex(index)

smallerChild(h, index) ==
    IF hasRightChild(h, index)
       /\ rightChild(h, index).expiresAt < leftChild(h, index).expiresAt
    THEN getRightChildIndex(index)
    ELSE getLeftChildIndex(index)

RECURSIVE heapifyDownLoop(_, _)
heapifyDownLoop(h, index) ==
    IF ~hasLeftChild(h, index) THEN h
    ELSE LET smallerChildIndex == smallerChild(h, index)
         IN  IF h[index + 1].expiresAt <= h[smallerChildIndex + 1].expiresAt
             THEN h
             ELSE heapifyDownLoop(swap(h, index, smallerChildIndex), smallerChildIndex)

\* heapifyDown() always starts at index 0.
heapifyDown(h) == heapifyDownLoop(h, 0)

peek(h) == [heap |-> h, ret |-> IF Len(h) > 0 THEN <<h[1]>> ELSE <<>>]

size(h) == Len(h)

insert(h, shortCode, expiresAt) ==
    [heap |-> heapifyUp(Append(h, Entry(shortCode, expiresAt))), ret |-> <<>>,
     logged |-> <<LogCall("HEAP_INSERT", shortCode)>>]

pop(h) == SubSeq(h, 1, Len(h) - 1)

extractMinKeepsRoot(h) ==
    IF Len(h) = 0 THEN [heap |-> h, ret |-> <<>>, logged |-> <<>>]
    ELSE [heap |-> pop(h), ret |-> <<h[1]>>,
          logged |-> <<LogCall("HEAP_EXTRACT", h[1].shortCode)>>]

extractMin(h) ==
    IF Len(h) = 0 THEN [heap |-> h, ret |-> <<>>, logged |-> <<>>]
    ELSE LET min == h[1]
             lastEl == h[Len(h)]
             popped == pop(h)
         IN  [heap |-> IF Len(popped) > 0
                       THEN heapifyDown([popped EXCEPT ![1] = lastEl])
                       ELSE popped,
              ret |-> <<min>>,
              logged |-> <<LogCall("HEAP_EXTRACT", min.shortCode)>>]

\* Array.prototype.sort with the comparator a.expiresAt - b.expiresAt: a stable
\* sort, here by insertion from the left.
RECURSIVE insertSorted(_, _)
insertSorted(s, e) ==
    IF s = <<>> THEN <<e>>
    ELSE IF s[Len(s)].expiresAt <= e.expiresAt THEN Append(s, e)
    ELSE Append(insertSorted(pop(s), e), s[Len(s)])

RECURSIVE sortByExpiry(_)
sortByExpiry(s) ==
    IF s = <<>> THEN <<>> ELSE insertSorted(sortByExpiry(pop(s)), s[Len(s)])

getAllUnsorted(h) == [heap |-> h, ret |-> h]

\* [...this.heap] copies the array; the copy is sorted and returned.
getAll(h) == [heap |-> h, ret |-> sortByExpiry(h)]

findIndexElseRoot(h, shortCode) ==
    IF \E i \in 1..Len(h) : h[i].shortCode = shortCode
    THEN (CHOOSE i \in 1..Len(h) :
              /\ h[i].shortCode = shortCode
              /\ \A j \in 1..(i - 1) : h[j].shortCode # shortCode) - 1
    ELSE IF h = <<>> THEN -1 ELSE 0

\* findIndex: the first index whose entry has the key, -1 when there is none.
findIndex(h, shortCode) ==
    IF \E i \in 1..Len(h) : h[i].shortCode = shortCode
    THEN (CHOOSE i \in 1..Len(h) :
              /\ h[i].shortCode = shortCode
              /\ \A j \in 1..(i - 1) : h[j].shortCode # shortCode) - 1
    ELSE -1

remove(h, shortCode) ==
    LET index == findIndex(h, shortCode)
    IN  IF index = -1 THEN [heap |-> h, ret |-> FALSE, logged |-> <<>>]
        ELSE LET lastEl == h[Len(h)]
                 popped == pop(h)
             IN  [heap |-> IF index < Len(popped)
                           THEN heapifyUp(heapifyDown([popped EXCEPT ![index + 1] = lastEl]))
                           ELSE popped,
                  ret |-> TRUE,
                  logged |-> <<>>]

(***************************************************************************)
(* Specifications of the heap alone: the methods of MinHeap called in any  *)
(* order on an initially empty heap (the constructor).                     *)
(***************************************************************************)
NoCall == [op |-> "none", key |-> "", ret |-> <<>>, ok |-> FALSE]

HeapInit ==
    /\ heap = <<>>
    /\ urlCache = <<>>
    /\ recency = <<>>
    /\ ServerAtRest
    /\ last = NoCall

HeapFrame ==
    UNCHANGED <<urlCache, recency, store, now, req, sw, nreq, latest,
                operationLog, heapOperationLog>>

HInsert ==
    \E c \in HeapCodes, t \in Instants :
        /\ Len(heap) < MaxHeap
        /\ heap' = insert(heap, c, t).heap
        /\ last' = [op |-> "insert", key |-> c, ret |-> <<>>, ok |-> FALSE]
        /\ HeapFrame

HExtractMin ==
    /\ heap' = extractMin(heap).heap
    /\ last' = [op |-> "extractMin", key |-> "", ret |-> extractMin(heap).ret, ok |-> FALSE]
    /\ HeapFrame

HPeek ==
    /\ heap' = peek(heap).heap
    /\ last' = [op |-> "peek", key |-> "", ret |-> peek(heap).ret, ok |-> FALSE]
    /\ HeapFrame

HGetAll ==
    /\ heap' = getAll(heap).heap
    /\ last' = [op |-> "getAll", key |-> "", ret |-> getAll(heap).ret, ok |-> FALSE]
    /\ HeapFrame

HRemove ==
    \E c \in HeapCodes :
        /\ heap' = remove(heap, c).heap
        /\ last' = [op |-> "remove", key |-> c, ret |-> <<>>, ok |-> remove(heap, c).ret]
        /\ HeapFrame

\* insert, extractMin, peek and getAll: the methods the server itself calls.
HeapNextIE == HInsert \/ HExtractMin \/ HPeek \/ HGetAll

SpecHeapIE == HeapInit /\ [][HeapNextIE]_vars

\* every method of the class, remove included.
HeapNext == HInsert \/ HExtractMin \/ HPeek \/ HGetAll \/ HRemove

SpecHeap == HeapInit /\ [][HeapNext]_vars

(***************************************************************************)
(* Heap properties.                                                        *)
(***************************************************************************)
IsMinHeap(h) ==
    \A i \in 1..(Len(h) - 1) : h[getParentIndex(i) + 1].expiresAt <= h[i + 1].expiresAt

Count(s, e) == Cardinality({i \in 1..Len(s) : s[i] = e})

Range(s) == {s[i] : i \in 1..Len(s)}

SameEntries(s, t) ==
    /\ Len(s) = Len(t)
    /\ \A e \in Range(s) \cup Range(t) : Count(s, e) = Count(t, e)

IsSortedByExpiry(s) ==
    \A i \in 1..(Len(s) - 1) : s[i].expiresAt <= s[i + 1].expiresAt

IsMinimumOf(e, h) == \A i \in 1..Len(h) : e.expiresAt <= h[i].expiresAt

\* C5: after any sequence of insert and extractMin calls the heap array has the
\* min-heap property: heap[parent(i)].expiresAt <= heap[i].expiresAt for every i > 0.
C5_HeapProperty == IsMinHeap(heap)

\* C5 witness: an extractMin has just sifted an element down in a heap that
\* still holds entries with three different expiry instants.
C5_Witness ==
    /\ last.op = "extractMin"
    /\ Len(heap) >= 4
    /\ Cardinality({heap[i].expiresAt : i \in 1..Len(heap)}) >= 3
    /\ heap[1].expiresAt < heap[Len(heap)].expiresAt

\* C6: for all sequences of insert, extractMin and remove, peek returns without
\* mutation, and extractMin removes and returns, an entry whose expiry instant is
\* the smallest in the scheduler; both return null on an empty heap and
\* extractMin removes exactly that one entry.
C6_PeekExtractMinimum ==
    [][/\ last'.op = "peek" =>
            /\ heap' = heap
            /\ heap = <<>> => last'.ret = <<>>
            /\ heap # <<>> =>
                  /\ Len(last'.ret) = 1
                  /\ last'.ret[1] \in Range(heap)
                  /\ IsMinimumOf(last'.ret[1], heap)
       /\ last'.op = "extractMin" =>
            /\ heap = <<>> => last'.ret = <<>> /\ heap' = heap
            /\ heap # <<>> =>
                  /\ Len(last'.ret) = 1
                  /\ IsMinimumOf(last'.ret[1], heap)
                  /\ SameEntries(heap, heap' \o last'.ret)]_vars

\* C7: remove(key) on a heap with the heap property returns true iff an entry
\* with the key is present; then exactly one entry with that key is gone, every
\* other entry is kept and the heap property holds again; when the key is absent
\* it returns false and the heap is unchanged.
C7_RemoveRestoresHeap ==
    [][(last'.op = "remove" /\ IsMinHeap(heap)) =>
            LET present == \E i \in 1..Len(heap) : heap[i].shortCode = last'.key
            IN  /\ last'.ok = present
                /\ ~present => heap' = heap
                /\ present =>
                      /\ \E e \in Range(heap) :
                            /\ e.shortCode = last'.key
                            /\ SameEntries(heap, Append(heap', e))
                      /\ IsMinHeap(heap')]_vars

\* C8: getAll returns exactly the entries of the heap, sorted ascending by expiry
\* instant, and leaves the heap array unchanged.
C8_GetAllSortedSnapshot ==
    [][last'.op = "getAll" =>
            /\ heap' = heap
            /\ SameEntries(last'.ret, heap)
            /\ IsSortedByExpiry(last'.ret)]_vars

\* C8 witness: getAll has returned a snapshot of at least four entries whose
\* order differs from the array's, after a remove took an entry out.
C8_Witness ==
    /\ last.op = "getAll"
    /\ Len(heap) >= 4
    /\ last.ret # heap
    /\ IsSortedByExpiry(last.ret)
    /\ ~IsMinHeap(heap)

(***************************************************************************)
(* urlCache: a JavaScript Map, which iterates in insertion order.  set on  *)
(* a key already present keeps the key's position and replaces its value.  *)
(***************************************************************************)
MAX_CACHE_SIZE == 5

CacheKeys(m) == {m[i].key : i \in 1..Len(m)}
MapHas(m, k) == k \in CacheKeys(m)
MapGet(m, k) == (CHOOSE i \in 1..Len(m) : m[i].key = k)
MapValue(m, k) == m[MapGet(m, k)].url
MapDeleteNot(m, k) == m

\* Map.prototype.delete
MapDelete(m, k) == SelectSeq(m, LAMBDA e : e.key # k)
MapSet(m, k, v) ==
    IF MapHas(m, k)
    THEN [i \in 1..Len(m) |-> IF m[i].key = k THEN [key |-> k, url |-> v] ELSE m[i]]
    ELSE Append(m, [key |-> k, url |-> v])
MapFirstKey(m) == m[1].key
KeyOrder(m) == [i \in 1..Len(m) |-> m[i].key]

cacheIsFullOffByOne(c) == Len(c) > MAX_CACHE_SIZE

\* urlCache.size >= MAX_CACHE_SIZE
cacheIsFull(c) == Len(c) >= MAX_CACHE_SIZE

dropExistingNever(c, shortCode) == c

\* if (urlCache.has(shortCode)) urlCache.delete(shortCode)
dropExisting(c, shortCode) == IF MapHas(c, shortCode) THEN MapDelete(c, shortCode) ELSE c

addToCacheSetFirst(c, shortCode, url) ==
    LET c1 == dropExisting(c, shortCode)
        full == cacheIsFull(c1)
        c2 == IF full THEN MapDelete(c1, MapFirstKey(c1)) ELSE c1
    IN  [cache |-> MapSet(c2, shortCode, url),
         evicted |-> IF full THEN <<MapFirstKey(c1)>> ELSE <<>>,
         logged |-> <<LogCall("SET", shortCode)>>
                        \o (IF full THEN <<LogCall("EVICT", MapFirstKey(c1))>> ELSE <<>>)]

\* addToCache: [cache |-> the Map afterwards, evicted |-> <<firstKey>> or <<>>]
addToCache(c, shortCode, url) ==
    LET c1 == dropExisting(c, shortCode)
        full == cacheIsFull(c1)
        c2 == IF full THEN MapDelete(c1, MapFirstKey(c1)) ELSE c1
    IN  [cache |-> MapSet(c2, shortCode, url),
         evicted |-> IF full THEN <<MapFirstKey(c1)>> ELSE <<>>,
         logged |-> (IF full THEN <<LogCall("EVICT", MapFirstKey(c1))>> ELSE <<>>)
                        \o <<LogCall("SET", shortCode)>>]

moveToEndNot(c, shortCode) == c

\* urlCache.delete(shortCode); urlCache.set(shortCode, url)
moveToEnd(c, shortCode) == MapSet(MapDelete(c, shortCode), shortCode, MapValue(c, shortCode))

getFromCacheLogsMiss(c, shortCode) ==
    IF ~MapHas(c, shortCode)
    THEN [cache |-> c, ret |-> <<>>, logged |-> <<LogCall("MISS", shortCode)>>]
    ELSE [cache |-> moveToEnd(c, shortCode), ret |-> <<MapValue(c, shortCode)>>,
          logged |-> <<LogCall("HIT", shortCode)>>]

\* getFromCache: [cache |-> the Map afterwards, ret |-> <<url>> or <<>> for null]
getFromCache(c, shortCode) ==
    IF ~MapHas(c, shortCode) THEN [cache |-> c, ret |-> <<>>, logged |-> <<>>]
    ELSE [cache |-> moveToEnd(c, shortCode), ret |-> <<MapValue(c, shortCode)>>,
          logged |-> <<LogCall("HIT", shortCode)>>]

\* History of touches: the keys still cached, least recently touched first,
\* after key k was touched (k = "" for no touch).
Touched(rec, k, cacheAfter) ==
    LET kept == SelectSeq(rec, LAMBDA x : x # k /\ MapHas(cacheAfter, x))
    IN  IF k # "" /\ MapHas(cacheAfter, k) THEN Append(kept, k) ELSE kept

(***************************************************************************)
(* Specification of the cache alone: the three ways the server changes     *)
(* urlCache (addToCache, getFromCache, urlCache.delete), in any order.     *)
(***************************************************************************)
\* One short code more than the cache holds.
CacheCodes == Codes(MAX_CACHE_SIZE + 1)
CacheUrls == Urls(2)

CacheFrame ==
    UNCHANGED <<heap, store, now, req, sw, nreq, latest,
                operationLog, heapOperationLog>>

CacheInit ==
    /\ heap = <<>>
    /\ urlCache = <<>>
    /\ recency = <<>>
    /\ ServerAtRest
    /\ last = [op |-> "none", key |-> "", ret |-> <<>>, evicted |-> <<>>]

CPut ==
    \E k \in CacheCodes, u \in CacheUrls :
        LET r == addToCache(urlCache, k, u)
        IN  /\ urlCache' = r.cache
            /\ recency' = Touched(recency, k, r.cache)
            /\ last' = [op |-> "addToCache", key |-> k, ret |-> <<u>>, evicted |-> r.evicted]
            /\ CacheFrame

CGet ==
    \E k \in CacheCodes :
        LET r == getFromCache(urlCache, k)
        IN  /\ urlCache' = r.cache
            /\ recency' = Touched(recency, IF r.ret = <<>> THEN "" ELSE k, r.cache)
            /\ last' = [op |-> "getFromCache", key |-> k, ret |-> r.ret, evicted |-> <<>>]
            /\ CacheFrame

CDelete ==
    \E k \in CacheCodes :
        /\ urlCache' = MapDelete(urlCache, k)
        /\ recency' = Touched(recency, "", MapDelete(urlCache, k))
        /\ last' = [op |-> "delete", key |-> k, ret |-> <<>>, evicted |-> <<>>]
        /\ CacheFrame

CacheNext == CPut \/ CGet \/ CDelete

SpecCache == CacheInit /\ [][CacheNext]_vars

\* C2: in every reachable state the number of keys in urlCache is at most
\* MAX_CACHE_SIZE.
C2_CacheBounded ==
    /\ Len(urlCache) <= MAX_CACHE_SIZE
    /\ Cardinality(CacheKeys(urlCache)) = Len(urlCache)

\* C2 witness: a Put into a full cache has just evicted a key and the cache is
\* at capacity.
C2_Witness ==
    /\ last.op = "addToCache"
    /\ last.evicted # <<>>
    /\ Len(urlCache) = MAX_CACHE_SIZE

\* C3: when a Put of a key not in the cache finds the cache at capacity, exactly
\* one key is evicted, the key least recently touched among the keys present,
\* and no other key is removed.
C3_EvictsLeastRecentlyTouched ==
    [][(/\ last'.op = "addToCache"
        /\ ~MapHas(urlCache, last'.key)
        /\ Len(urlCache) >= MAX_CACHE_SIZE) =>
            /\ CacheKeys(urlCache) \ CacheKeys(urlCache') = {recency[1]}
            /\ last'.evicted = <<recency[1]>>
            /\ CacheKeys(urlCache') = (CacheKeys(urlCache) \ {recency[1]}) \cup {last'.key}]_vars

\* C3 witness: a Put evicted a key other than the first one ever inserted out
\* of a full cache: an earlier Get hit had moved "a" to the recent end.
C3_Witness ==
    /\ last.op = "addToCache"
    /\ last.evicted = <<"b">>
    /\ Len(urlCache) = MAX_CACHE_SIZE
    /\ MapHas(urlCache, "a")
    /\ recency[Len(recency)] = last.key

\* C4: the key order of the cache is least recently touched first; a Get hit on k
\* or a Put of a k already present moves k to the last position, keeps (Get) or
\* replaces (Put) its value and leaves the relative order of the other keys.
C4_RecencyOrder ==
    [][/\ KeyOrder(urlCache') = recency'
       /\ (last'.op = "getFromCache" /\ MapHas(urlCache, last'.key)) =>
            /\ last'.ret = <<MapValue(urlCache, last'.key)>>
            /\ urlCache' = Append(MapDelete(urlCache, last'.key),
                                  [key |-> last'.key, url |-> MapValue(urlCache, last'.key)])
       /\ (last'.op = "addToCache" /\ MapHas(urlCache, last'.key)) =>
            urlCache' = Append(MapDelete(urlCache, last'.key),
                               [key |-> last'.key, url |-> last'.ret[1]])]_vars

\* C4 witness: a Put of a key already present, not last before, replaced its
\* value in a full cache and the key is now last.
C4_Witness ==
    /\ last.op = "addToCache"
    /\ last.evicted = <<>>
    /\ Len(urlCache) = MAX_CACHE_SIZE
    /\ urlCache[Len(urlCache)] = [key |-> "a", url |-> "u2"]
    /\ last.key = "a"

(***************************************************************************)
(* The server: GET /:shortCode, POST /shorten and the setInterval sweeper. *)
(* Node runs one callback at a time, so the code between two awaits is one *)
(* step.  Every await of a store call is two more steps: the store         *)
(* performs the call (the Db... actions) and, later, the handler resumes.  *)
(* In this specification the store answers every call.                     *)
(***************************************************************************)
isExpiredByTimeOnly(urlData, t) ==
    IF urlData.expiryType = "none" THEN FALSE
    ELSE IF urlData.expiryType = "time" /\ urlData.expiresAt # 0
         THEN t > urlData.expiresAt
    ELSE FALSE

\* isExpired(urlData), with t the value of new Date()
isExpired(urlData, t) ==
    IF urlData.expiryType = "none" THEN FALSE
    ELSE IF urlData.expiryType = "time" /\ urlData.expiresAt # 0
         THEN t > urlData.expiresAt
    ELSE IF urlData.expiryType = "clicks" /\ urlData.maxClicks # 0
         THEN urlData.clicks >= urlData.maxClicks
    ELSE FALSE

\* calculateExpiryDate(value, unit), in units of the model's clock
calculateExpiryDate(value, t) == t + value

sweepDueEarly(top, t) == top.expiresAt <= t + 1

sweepDueNever(top, t) == FALSE

\* new Date(top.expiresAt) <= now
sweepDue(top, t) == top.expiresAt <= t

\* One pass of the sweeper's while loop up to its next await or its end:
\* expired is <<the entry extracted>>, or <<>> when the loop ended.
sweepLoop(h, t) ==
    IF size(h) > 0 /\ peek(h).ret # <<>> /\ sweepDue(peek(h).ret[1], t)
    THEN [heap |-> extractMin(h).heap, expired |-> extractMin(h).ret,
          logged |-> extractMin(h).logged]
    ELSE [heap |-> h, expired |-> <<>>, logged |-> <<>>]

(***************************************************************************)
(* The two logs.  A record keeps the type and the key of the call; each    *)
(* function is an operator from the array before the call to the array     *)
(* after it.                                                               *)
(***************************************************************************)
operationLogOverflowsLate(log) == Len(log) > 101

\* operationLog.length > 100
operationLogOverflows(log) == Len(log) > 100

\* logOperation(type, key, ...)
logOperation(log, call) ==
    LET pushed == Append(log, call)
    IN  IF operationLogOverflows(pushed) THEN Tail(pushed) ELSE pushed

\* heapOperationLog.length > 50
heapOperationLogOverflows(log) == Len(log) > 50

\* logHeapOperation(type, key, ...)
logHeapOperation(log, call) ==
    LET pushed == Append(log, call)
    IN  IF heapOperationLogOverflows(pushed) THEN Tail(pushed) ELSE pushed

\* the calls of logOperation, one after the other
RECURSIVE logOperations(_, _)
logOperations(log, calls) ==
    IF calls = <<>> THEN log
    ELSE logOperations(logOperation(log, Head(calls)), Tail(calls))

\* the calls of logHeapOperation, one after the other
RECURSIVE logHeapOperations(_, _)
logHeapOperations(log, calls) ==
    IF calls = <<>> THEN log
    ELSE logHeapOperations(logHeapOperation(log, Head(calls)), Tail(calls))

(***************************************************************************)
(* Specification of the two containers with their logs: the methods of     *)
(* ttlHeap and the three ways the server changes urlCache, in any order,   *)
(* from the empty containers and the empty logs, until the logs hold       *)
(* MaxLogged records.                                                      *)
(***************************************************************************)
LoggedCodes == Codes(2)
LoggedUrls == Urls(1)
LoggedInstants == 1..2

\* What a call leaves in last; again: it repeats the call before it.
Call(op, k, ret, ok) ==
    [op |-> op, key |-> k, ret |-> ret, ok |-> ok,
     again |-> (last.op = op /\ last.key = k)]

LoggedInit ==
    /\ heap = <<>>
    /\ urlCache = <<>>
    /\ recency = <<>>
    /\ ServerAtRest
    /\ last = [op |-> "none", key |-> "", ret |-> <<>>, ok |-> FALSE, again |-> FALSE]

LoggedRoom == Len(operationLog) + Len(heapOperationLog) < MaxLogged

LoggedHeapFrame ==
    UNCHANGED <<urlCache, recency, operationLog, store, now, req, sw, nreq, latest>>

LoggedCacheFrame ==
    UNCHANGED <<heap, heapOperationLog, store, now, req, sw, nreq, latest>>

\* ttlHeap.insert(c, t)
LInsert ==
    /\ LoggedRoom
    /\ \E c \in LoggedCodes, t \in LoggedInstants :
          LET r == insert(heap, c, t)
          IN  /\ heap' = r.heap
              /\ heapOperationLog' = logHeapOperations(heapOperationLog, r.logged)
              /\ last' = Call("insert", c, <<>>, FALSE)
    /\ LoggedHeapFrame

\* ttlHeap.extractMin()
LExtractMin ==
    /\ LoggedRoom
    /\ LET r == extractMin(heap)
       IN  /\ heap' = r.heap
           /\ heapOperationLog' = logHeapOperations(heapOperationLog, r.logged)
           /\ last' = Call("extractMin", "", r.ret, FALSE)
    /\ LoggedHeapFrame

\* ttlHeap.remove(c)
LRemove ==
    /\ \E c \in LoggedCodes :
          LET r == remove(heap, c)
          IN  /\ heap' = r.heap
              /\ heapOperationLog' = logHeapOperations(heapOperationLog, r.logged)
              /\ last' = Call("remove", c, <<>>, r.ret)
    /\ LoggedHeapFrame

\* addToCache(k, u)
LPut ==
    /\ LoggedRoom
    /\ \E k \in LoggedCodes, u \in LoggedUrls :
          LET r == addToCache(urlCache, k, u)
          IN  /\ urlCache' = r.cache
              /\ recency' = Touched(recency, k, r.cache)
              /\ operationLog' = logOperations(operationLog, r.logged)
              /\ last' = Call("addToCache", k, <<u>>, FALSE)
    /\ LoggedCacheFrame

\* getFromCache(k)
LGet ==
    /\ LoggedRoom
    /\ \E k \in LoggedCodes :
          LET r == getFromCache(urlCache, k)
          IN  /\ urlCache' = r.cache
              /\ recency' = Touched(recency, IF r.ret = <<>> THEN "" ELSE k, r.cache)
              /\ operationLog' = logOperations(operationLog, r.logged)
              /\ last' = Call("getFromCache", k, r.ret, FALSE)
    /\ LoggedCacheFrame

\* if (urlCache.has(k)) urlCache.delete(k), which logs nothing
LDelete ==
    /\ \E k \in LoggedCodes :
          /\ urlCache' = IF MapHas(urlCache, k) THEN MapDelete(urlCache, k) ELSE urlCache
          /\ recency' = Touched(recency, "", urlCache')
          /\ operationLog' = operationLog
          /\ last' = Call("delete", k, <<>>, MapHas(urlCache, k))
    /\ LoggedCacheFrame

LoggedNext == LInsert \/ LExtractMin \/ LRemove \/ LPut \/ LGet \/ LDelete

SpecLogged == LoggedInit /\ [][LoggedNext]_vars

(***************************************************************************)
(* Specification of the cache with its log, from a cache that earlier Puts *)
(* have filled: the three ways the server changes urlCache, in any order,  *)
(* until operationLog holds MaxLogged records more than a full cache's.    *)
(***************************************************************************)
\* The Puts of codes i .. j of AllCodes, one after the other, into the cache c
\* with the log lg
RECURSIVE Filled(_, _, _, _)
Filled(c, lg, i, j) ==
    IF i > j THEN [cache |-> c, log |-> lg]
    ELSE LET r == addToCache(c, AllCodes[i], AllUrls[1])
         IN  Filled(r.cache, logOperations(lg, r.logged), i + 1, j)

\* The cache is full or has room for one key more; the codes of LoggedCodes
\* are both in it, or the second only, or none.
FilledInit ==
    /\ heap = <<>>
    /\ store = [k \in SysCodes |-> <<>>]
    /\ now = 0
    /\ req = [p \in Procs |-> IdleReq]
    /\ sw = [t \in Ticks |-> IdleTick]
    /\ nreq = 0
    /\ latest = [k \in SysCodes |-> 0]
    /\ last = [op |-> "none", key |-> "", ret |-> <<>>, ok |-> FALSE, again |-> FALSE]
    /\ \E i \in 1..3, n \in {MAX_CACHE_SIZE - 1, MAX_CACHE_SIZE} :
          LET r == Filled(<<>>, <<>>, i, i + n - 1)
          IN  /\ urlCache = r.cache
              /\ recency = KeyOrder(r.cache)
              /\ operationLog = r.log
    /\ heapOperationLog = <<>>

FilledRoom == Len(operationLog) < MAX_CACHE_SIZE + MaxLogged

\* addToCache(k, u)
FPut ==
    /\ FilledRoom
    /\ \E k \in LoggedCodes, u \in LoggedUrls :
          LET r == addToCache(urlCache, k, u)
          IN  /\ urlCache' = r.cache
              /\ recency' = Touched(recency, k, r.cache)
              /\ operationLog' = logOperations(operationLog, r.logged)
              /\ last' = Call("addToCache", k, <<u>>, FALSE)
    /\ LoggedCacheFrame

\* getFromCache(k)
FGet ==
    /\ FilledRoom
    /\ \E k \in LoggedCodes :
          LET r == getFromCache(urlCache, k)
          IN  /\ urlCache' = r.cache
              /\ recency' = Touched(recency, IF r.ret = <<>> THEN "" ELSE k, r.cache)
              /\ operationLog' = logOperations(operationLog, r.logged)
              /\ last' = Call("getFromCache", k, r.ret, FALSE)
    /\ LoggedCacheFrame

FilledNext == FPut \/ FGet \/ LDelete

SpecFilled == FilledInit /\ [][FilledNext]_vars

SysEvent(op, k) ==
    [op |-> op, key |-> k, outcome |-> "", reason |-> "", stale |-> FALSE,
     extracted |-> <<>>, ended |-> FALSE, cached |-> FALSE, raced |-> <<>>]

\* Steps that answer no request and extract nothing leave no trace in last.
Quiet == SysEvent("step", "")

Respond(op, k, outcome, r) ==
    [SysEvent(op, k) EXCEPT !.outcome = outcome, !.reason = r.data[1].expiryType,
                            !.stale = r.stale, !.raced = r.raced]

RespondNoData(op, k, outcome, r) ==
    [SysEvent(op, k) EXCEPT !.outcome = outcome, !.stale = r.stale, !.raced = r.raced]

\* The expiry instant of the newest record of k has passed.
StaleAt(k) == latest[k] # 0 /\ latest[k] < now

\* Handler slots are interchangeable: a new request takes the first idle one.
FirstIdle(p) == req[p].pc = "idle" /\ (p = "p2" => req["p1"].pc # "idle")

Init ==
    /\ heap = <<>>
    /\ urlCache = <<>>
    /\ recency = <<>>
    /\ ServerAtRest
    /\ last = SysEvent("none", "")

Tick ==
    /\ now < MaxTime
    /\ now' = now + 1
    /\ last' = Quiet
    /\ UNCHANGED <<heap, urlCache, store, req, sw, nreq, latest, recency,
                   operationLog, heapOperationLog>>

(***************************************************************************)
(* The store's side of the awaited calls.                                  *)
(***************************************************************************)
\* Url.findOne({ shortCode }) awaited by GET /:shortCode
DbFindOne(p) ==
    /\ req[p].pc \in {"hitFind", "missFind"}
    /\ req' = [req EXCEPT ![p].pc = IF req[p].pc = "hitFind" THEN "hitFound" ELSE "missFound",
                          ![p].data = store[req[p].code]]
    /\ last' = Quiet
    /\ UNCHANGED <<heap, urlCache, store, now, sw, nreq, latest, recency,
                   operationLog, heapOperationLog>>

\* Url.deleteOne({ shortCode }) awaited by GET /:shortCode
DbDeleteOne(p) ==
    /\ req[p].pc \in {"hitDelete", "missDelete"}
    /\ store' = [store EXCEPT ![req[p].code] = <<>>]
    /\ req' = [req EXCEPT ![p].pc = IF req[p].pc = "hitDelete" THEN "hitDeleted"
                                                                ELSE "missDeleted"]
    /\ last' = Quiet
    /\ UNCHANGED <<heap, urlCache, now, sw, nreq, latest, recency,
                   operationLog, heapOperationLog>>

\* Url.updateOne({ shortCode }, { $inc: { clicks: 1 } })
DbUpdateOne(p) ==
    /\ req[p].pc = "hitInc"
    /\ store' = [store EXCEPT ![req[p].code] =
                    IF @ = <<>> THEN @ ELSE <<[@[1] EXCEPT !.clicks = @ + 1]>>]
    /\ req' = [req EXCEPT ![p].pc = "hitInced"]
    /\ last' = Quiet
    /\ UNCHANGED <<heap, urlCache, now, sw, nreq, latest, recency,
                   operationLog, heapOperationLog>>

\* urlData.save() of a document read earlier: writes the clicks the handler
\* computed, to the document with that _id, if it still exists
DbSaveClicks(p) ==
    /\ req[p].pc = "missSave"
    /\ LET k == req[p].code
           there == store[k] # <<>> /\ store[k][1].id = req[p].data[1].id
       IN  /\ store' = [store EXCEPT ![k] =
                           IF there THEN <<[@[1] EXCEPT !.clicks = req[p].data[1].clicks]>>
                                    ELSE @]
           /\ req' = [req EXCEPT ![p].pc = IF there THEN "missSaved" ELSE "missSaveLost"]
           /\ last' = Quiet
    /\ UNCHANGED <<heap, urlCache, now, sw, nreq, latest, recency,
                   operationLog, heapOperationLog>>

\* newUrl.save() of a new document; shortCode is a unique index.  When the
\* code is taken the save rejects and the catch block answers 500, which
\* touches nothing but the response.
DbSaveNew(p) ==
    /\ req[p].pc = "save"
    /\ LET k == req[p].code
           d == req[p].data[1]
           free == store[k] = <<>>
       IN  /\ store' = [store EXCEPT ![k] = IF free THEN <<d>> ELSE @]
           /\ latest' = [latest EXCEPT ![k] =
                            IF ~free THEN @
                            ELSE IF d.expiryType = "time" THEN d.expiresAt ELSE 0]
           /\ req' = [q \in Procs |->
                        IF q = p THEN (IF free THEN [req[p] EXCEPT !.pc = "saved"] ELSE IdleReq)
                        ELSE IF free /\ req[q].code = k THEN [req[q] EXCEPT !.stale = FALSE]
                        ELSE req[q]]
           /\ last' = IF free THEN Quiet ELSE Respond("InsertRespond", k, "500", req[p])
    /\ UNCHANGED <<heap, urlCache, now, sw, nreq, recency,
                   operationLog, heapOperationLog>>

\* Url.deleteOne({ shortCode: expired.shortCode }) awaited by the sweeper
DbSweepDelete(t) ==
    /\ sw[t].pc = "del"
    /\ store' = [store EXCEPT ![sw[t].expired[1].shortCode] = <<>>]
    /\ sw' = [sw EXCEPT ![t].pc = "deleted"]
    /\ last' = Quiet
    /\ UNCHANGED <<heap, urlCache, now, req, nreq, latest, recency,
                   operationLog, heapOperationLog>>

(***************************************************************************)
(* GET /:shortCode                                                         *)
(***************************************************************************)
\* getFromCache, then the first findOne is issued on either path
LookupStart(p) ==
    /\ FirstIdle(p)
    /\ nreq < MaxReq
    /\ \E k \in SysCodes :
          LET r == getFromCache(urlCache, k)
              hit == r.ret # <<>>
          IN  /\ urlCache' = r.cache
              /\ recency' = Touched(recency, IF hit THEN k ELSE "", r.cache)
              /\ req' = [req EXCEPT ![p] =
                            [IdleReq EXCEPT !.pc = IF hit THEN "hitFind" ELSE "missFind",
                                            !.code = k,
                                            !.url = IF hit THEN r.ret[1] ELSE "",
                                            !.stale = StaleAt(k)]]
              /\ operationLog' = logOperations(operationLog, r.logged)
              /\ last' = Quiet
    /\ nreq' = nreq + 1
    /\ UNCHANGED <<heap, store, now, sw, latest, heapOperationLog>>

\* History: the handler r starts expiring its key; a callback that holds an
\* entry of the key races it.
RacedReq(r) ==
    IF \E t \in Ticks : Holding(sw[t], r.code) THEN r.data ELSE <<>>

RacedTicks(r) ==
    [t \in Ticks |->
        IF Holding(sw[t], r.code) THEN [sw[t] EXCEPT !.raced = r.data] ELSE sw[t]]

\* cache hit, record expired: urlCache.delete, then deleteOne is issued
LookupHitExpired(p) ==
    /\ req[p].pc = "hitFound"
    /\ req[p].data # <<>>
    /\ isExpired(req[p].data[1], now)
    /\ urlCache' = MapDelete(urlCache, req[p].code)
    /\ recency' = Touched(recency, "", urlCache')
    /\ req' = [req EXCEPT ![p].pc = "hitDelete",
                          ![p].raced = RacedReq(req[p])]
    /\ sw' = RacedTicks(req[p])
    /\ last' = Quiet
    /\ UNCHANGED <<heap, store, now, nreq, latest,
                   operationLog, heapOperationLog>>

\* cache hit, record live: updateOne is issued
LookupHitLive(p) ==
    /\ req[p].pc = "hitFound"
    /\ req[p].data # <<>>
    /\ ~isExpired(req[p].data[1], now)
    /\ req' = [req EXCEPT ![p].pc = "hitInc"]
    /\ last' = Quiet
    /\ UNCHANGED <<heap, urlCache, store, now, sw, nreq, latest, recency,
                   operationLog, heapOperationLog>>

\* cache hit, no record in the store: res.redirect(cachedUrl)
LookupHitNoRecord(p) ==
    /\ req[p].pc = "hitFound"
    /\ req[p].data = <<>>
    /\ req' = [req EXCEPT ![p] = IdleReq]
    /\ last' = RespondNoData("LookupRespond", req[p].code, "redirect", req[p])
    /\ UNCHANGED <<heap, urlCache, store, now, sw, nreq, latest, recency,
                   operationLog, heapOperationLog>>

\* after updateOne: res.redirect(cachedUrl)
LookupRespondHit(p) ==
    /\ req[p].pc = "hitInced"
    /\ req' = [req EXCEPT ![p] = IdleReq]
    /\ last' = Respond("LookupRespond", req[p].code, "redirect", req[p])
    /\ UNCHANGED <<heap, urlCache, store, now, sw, nreq, latest, recency,
                   operationLog, heapOperationLog>>

\* after deleteOne on either path: status 410
LookupRespondExpired(p) ==
    /\ req[p].pc \in {"hitDeleted", "missDeleted"}
    /\ req' = [req EXCEPT ![p] = IdleReq]
    /\ operationLog' = logOperation(operationLog, LogCall("EXPIRED", req[p].code))
    /\ last' = Respond("LookupRespond", req[p].code, "410", req[p])
    /\ UNCHANGED <<heap, urlCache, store, now, sw, nreq, latest, recency, heapOperationLog>>

\* cache miss, no record: status 404
LookupMissNotFound(p) ==
    /\ req[p].pc = "missFound"
    /\ req[p].data = <<>>
    /\ req' = [req EXCEPT ![p] = IdleReq]
    /\ operationLog' = logOperation(operationLog, LogCall("MISS", req[p].code))
    /\ last' = RespondNoData("LookupRespond", req[p].code, "404", req[p])
    /\ UNCHANGED <<heap, urlCache, store, now, sw, nreq, latest, recency, heapOperationLog>>

\* cache miss, record expired: urlCache.delete if present, then deleteOne is issued
LookupMissExpired(p) ==
    /\ req[p].pc = "missFound"
    /\ req[p].data # <<>>
    /\ isExpired(req[p].data[1], now)
    /\ urlCache' = IF MapHas(urlCache, req[p].code)
                   THEN MapDelete(urlCache, req[p].code) ELSE urlCache
    /\ recency' = Touched(recency, "", urlCache')
    /\ req' = [req EXCEPT ![p].pc = "missDelete",
                          ![p].raced = RacedReq(req[p])]
    /\ sw' = RacedTicks(req[p])
    /\ operationLog' = logOperation(operationLog, LogCall("MISS", req[p].code))
    /\ last' = Quiet
    /\ UNCHANGED <<heap, store, now, nreq, latest, heapOperationLog>>

\* cache miss, record live: addToCache, urlData.clicks++, then save is issued
LookupMissLive(p) ==
    /\ req[p].pc = "missFound"
    /\ req[p].data # <<>>
    /\ ~isExpired(req[p].data[1], now)
    /\ urlCache' = addToCache(urlCache, req[p].code, req[p].data[1].url).cache
    /\ recency' = Touched(recency, req[p].code, urlCache')
    /\ req' = [req EXCEPT ![p].pc = "missSave",
                          ![p].data = <<[@[1] EXCEPT !.clicks = @ + 1]>>]
    /\ operationLog' =
          logOperations(operationLog,
                        <<LogCall("MISS", req[p].code)>>
                            \o addToCache(urlCache, req[p].code, req[p].data[1].url).logged)
    /\ last' = Quiet
    /\ UNCHANGED <<heap, store, now, sw, nreq, latest, heapOperationLog>>

\* after save: res.redirect(urlData.url)
LookupRespondMiss(p) ==
    /\ req[p].pc = "missSaved"
    /\ req' = [req EXCEPT ![p] = IdleReq]
    /\ last' = Respond("LookupRespond", req[p].code, "redirect", req[p])
    /\ UNCHANGED <<heap, urlCache, store, now, sw, nreq, latest, recency,
                   operationLog, heapOperationLog>>

\* after a save that found no document: the library either resolves (redirect)
\* or rejects with DocumentNotFoundError (catch: status 500), by its version
LookupRespondMissLost(p) ==
    /\ req[p].pc = "missSaveLost"
    /\ req' = [req EXCEPT ![p] = IdleReq]
    /\ \E outcome \in {"redirect", "500"} :
          last' = Respond("LookupRespond", req[p].code, outcome, req[p])
    /\ UNCHANGED <<heap, urlCache, store, now, sw, nreq, latest, recency,
                   operationLog, heapOperationLog>>

(***************************************************************************)
(* POST /shorten                                                           *)
(***************************************************************************)
\* Url.findOne({ url }): one of the documents with that url, <<>> when none
FindByUrl(u) ==
    IF \E k \in SysCodes : store[k] # <<>> /\ store[k][1].url = u
    THEN {store[k] : k \in {c \in SysCodes : store[c] # <<>> /\ store[c][1].url = u}}
    ELSE {<<>>}

\* The request is admitted; the code up to the first await touches only the
\* request, so it is one step with the store's answer to findOne({ url }).
\* aliases and policies are what the clients of a specification ask for.
InsertStart(p, aliases, policies) ==
    /\ FirstIdle(p)
    /\ nreq < MaxReq
    /\ \E u \in SysUrls, a \in aliases, pol \in policies, f \in BOOLEAN :
       \E found \in FindByUrl(u) :
          /\ (a # "" \/ found = <<>>) => ~f
          /\ req' = [req EXCEPT ![p] =
                        [IdleReq EXCEPT !.pc = "dedupFound", !.url = u, !.alias = a,
                                        !.policy = pol, !.forceNew = f, !.id = nreq + 1,
                                        !.data = found]]
    /\ nreq' = nreq + 1
    /\ last' = Quiet
    /\ UNCHANGED <<heap, urlCache, store, now, sw, latest, recency,
                   operationLog, heapOperationLog>>

Deduplicates(r) == r.data # <<>> /\ ~r.forceNew /\ r.alias = ""

\* existingUrl && !forceNew && !alias: the existing short code is returned
InsertDedup(p) ==
    /\ req[p].pc = "dedupFound"
    /\ Deduplicates(req[p])
    /\ req' = [req EXCEPT ![p] = IdleReq]
    /\ operationLog' =
          logOperation(operationLog, LogCall("DEDUP", req[p].data[1].shortCode))
    /\ last' = Respond("InsertRespond", req[p].data[1].shortCode, "dedup", req[p])
    /\ UNCHANGED <<heap, urlCache, store, now, sw, nreq, latest, recency, heapOperationLog>>

\* a custom alias: findOne({ shortCode: alias }) is issued and answered (the
\* code that issues it touches only the request)
InsertCheckAlias(p) ==
    /\ req[p].pc = "dedupFound"
    /\ ~Deduplicates(req[p])
    /\ req[p].alias # ""
    /\ req' = [req EXCEPT ![p].pc = "aliasFound", ![p].code = req[p].alias,
                          ![p].data = store[req[p].alias],
                          ![p].alias = "", ![p].forceNew = FALSE]
    /\ last' = Quiet
    /\ UNCHANGED <<heap, urlCache, store, now, sw, nreq, latest, recency,
                   operationLog, heapOperationLog>>

\* generateShortCode(), first or again while the code exists; findOne is issued
\* and answered
InsertGenerate(p) ==
    /\ \/ req[p].pc = "dedupFound" /\ ~Deduplicates(req[p]) /\ req[p].alias = ""
       \/ req[p].pc = "genFound" /\ req[p].data # <<>>
    /\ \E k \in SysCodes :
          req' = [req EXCEPT ![p].pc = "genFound", ![p].code = k, ![p].data = store[k],
                             ![p].forceNew = FALSE]
    /\ last' = Quiet
    /\ UNCHANGED <<heap, urlCache, store, now, sw, nreq, latest, recency,
                   operationLog, heapOperationLog>>

\* existingAlias: status 400
InsertAliasInUse(p) ==
    /\ req[p].pc = "aliasFound"
    /\ req[p].data # <<>>
    /\ req' = [req EXCEPT ![p] = IdleReq]
    /\ last' = Respond("InsertRespond", req[p].code, "400", req[p])
    /\ UNCHANGED <<heap, urlCache, store, now, sw, nreq, latest, recency,
                   operationLog, heapOperationLog>>

\* urlData as lines 425-433 build it from the request
NewUrlData(r, t) ==
    IF r.policy.type = "time" /\ r.policy.value # 0
    THEN Doc(r.id, r.code, r.url, "time", calculateExpiryDate(r.policy.value, t), 0)
    ELSE IF r.policy.type = "clicks" /\ r.policy.value # 0
    THEN Doc(r.id, r.code, r.url, "clicks", 0, r.policy.value)
    ELSE Doc(r.id, r.code, r.url, "none", 0, 0)

\* the short code is free: urlData is built and newUrl.save() is issued
InsertBuild(p) ==
    /\ req[p].pc \in {"aliasFound", "genFound"}
    /\ req[p].data = <<>>
    /\ req' = [req EXCEPT ![p].pc = "save", ![p].data = <<NewUrlData(req[p], now)>>,
                          ![p].url = "", ![p].policy = NoPolicy, ![p].id = 0]
    /\ last' = Quiet
    /\ UNCHANGED <<heap, urlCache, store, now, sw, nreq, latest, recency,
                   operationLog, heapOperationLog>>

registersNever(urlData) == FALSE

\* urlData.expiryType === 'time' && urlData.expiresAt
registers(urlData) == urlData.expiryType = "time" /\ urlData.expiresAt # 0

\* after save: ttlHeap.insert for a time-based record, then the response
InsertRegister(p) ==
    /\ req[p].pc = "saved"
    /\ LET r == IF registers(req[p].data[1])
                THEN insert(heap, req[p].code, req[p].data[1].expiresAt)
                ELSE [heap |-> heap, logged |-> <<>>]
       IN  /\ heap' = r.heap
           /\ heapOperationLog' = logHeapOperations(heapOperationLog, r.logged)
    /\ req' = [req EXCEPT ![p] = IdleReq]
    /\ last' = Respond("InsertRespond", req[p].code, "200", req[p])
    /\ UNCHANGED <<urlCache, store, now, sw, nreq, latest, recency, operationLog>>

(***************************************************************************)
(* The sweeper: setInterval(async () => { ... }, 5000).  A timer callback  *)
(* may start while an earlier one still awaits the store.                  *)
(***************************************************************************)
\* What a resumed sweeper leaves in last: the key it reconciled, whether the
\* cache held it, the entry it extracted next, or that the callback ended.
SweepEvent(op, k, r) ==
    [SysEvent(op, k) EXCEPT !.extracted = r.expired, !.ended = (r.expired = <<>>),
                            !.cached = MapHas(urlCache, k)]

\* The callback after its loop: at the await of deleteOne for the entry it
\* extracted, or ended.  raced is what the callback has raced so far.
AfterLoop(r, raced) ==
    IF r.expired = <<>> THEN IdleTick
    ELSE [pc |-> "del", expired |-> r.expired,
          raced |-> LET k == r.expired[1].shortCode
                    IN  IF \E p \in Procs : Expiring(req[p], k)
                        THEN req[CHOOSE p \in Procs : Expiring(req[p], k)].data
                        ELSE raced]

\* History: the handlers that are expiring the key of the extracted entry now
\* race a callback.
RacedReqs(r) ==
    [p \in Procs |->
        IF r.expired # <<>> /\ Expiring(req[p], r.expired[1].shortCode)
        THEN [req[p] EXCEPT !.raced = req[p].data] ELSE req[p]]

\* Timer callbacks are interchangeable: a new one takes the first idle slot.
FirstIdleTick(t) == sw[t].pc = "idle" /\ (t = "t2" => sw["t1"].pc # "idle")

\* the timer fires: the loop runs to its first await, or to its end
SweepStart(t) ==
    /\ FirstIdleTick(t)
    /\ LET r == sweepLoop(heap, now)
       IN  /\ heap' = r.heap
           /\ sw' = [sw EXCEPT ![t] = AfterLoop(r, <<>>)]
           /\ req' = RacedReqs(r)
           /\ heapOperationLog' = logHeapOperations(heapOperationLog, r.logged)
           /\ last' = Quiet
    /\ UNCHANGED <<urlCache, store, now, nreq, latest, recency, operationLog>>

\* after deleteOne: urlCache.delete if present, then the loop goes on
SweepResume(t) ==
    /\ sw[t].pc = "deleted"
    /\ LET k == sw[t].expired[1].shortCode
           r == sweepLoop(heap, now)
       IN  /\ urlCache' = IF MapHas(urlCache, k) THEN MapDelete(urlCache, k) ELSE urlCache
           /\ recency' = Touched(recency, "", urlCache')
           /\ heap' = r.heap
           /\ sw' = [sw EXCEPT ![t] = AfterLoop(r, sw[t].raced)]
           /\ req' = RacedReqs(r)
           /\ operationLog' = logOperation(operationLog, LogCall("EXPIRED", k))
           /\ heapOperationLog' =
                 logHeapOperations(heapOperationLog,
                                   <<LogCall("TTL_EXPIRED", k)>> \o r.logged)
           /\ last' = [SweepEvent("SweepResume", k, r) EXCEPT !.raced = sw[t].raced]
    /\ UNCHANGED <<store, now, nreq, latest>>

LookupSteps(p) ==
    \/ DbFindOne(p) \/ DbDeleteOne(p) \/ DbUpdateOne(p) \/ DbSaveClicks(p)
    \/ LookupHitExpired(p) \/ LookupHitLive(p)
    \/ LookupHitNoRecord(p) \/ LookupRespondHit(p) \/ LookupRespondExpired(p)
    \/ LookupMissNotFound(p) \/ LookupMissExpired(p) \/ LookupMissLive(p)
    \/ LookupRespondMiss(p) \/ LookupRespondMissLost(p)

AliasInsertSteps(p) ==
    \/ InsertCheckAlias(p) \/ InsertAliasInUse(p) \/ InsertBuild(p)
    \/ DbSaveNew(p) \/ InsertRegister(p)

SweeperSteps(t) == DbSweepDelete(t) \/ SweepStart(t) \/ SweepResume(t)

\* The server with clients that name their alias and ask for no expiry or for
\* expiry by time.
Next ==
    \/ Tick
    \/ \E p \in Procs :
          \/ LookupStart(p)
          \/ LookupSteps(p)
          \/ InsertStart(p, SysCodes, {NoPolicy} \cup TimePolicies)
          \/ AliasInsertSteps(p)
    \/ \E t \in Ticks : SweeperSteps(t)

Spec == Init /\ [][Next]_vars

\* The server with one request in flight at a time.  The sweeper's callbacks
\* still run at every await of the handler and of each other.
NextSeq ==
    \/ Tick
    \/ LookupStart("p1")
    \/ LookupSteps("p1")
    \/ InsertStart("p1", SysCodes, {NoPolicy} \cup TimePolicies)
    \/ AliasInsertSteps("p1")
    \/ \E t \in Ticks : SweeperSteps(t)

SpecSeq == Init /\ [][NextSeq]_vars

\* The server with one request and one sweeper callback in flight at a time.
NextSeqOneTick ==
    \/ Tick
    \/ LookupStart("p1")
    \/ LookupSteps("p1")
    \/ InsertStart("p1", SysCodes, {NoPolicy} \cup TimePolicies)
    \/ AliasInsertSteps("p1")
    \/ SweeperSteps("t1")

SpecSeqOneTick == Init /\ [][NextSeqOneTick]_vars

\* The server with one request and one sweeper callback in flight at a time,
\* and clients that shorten under one alias with expiry by time (and look up
\* any code).
NextOneTick ==
    \/ Tick
    \/ LookupStart("p1")
    \/ LookupSteps("p1")
    \/ InsertStart("p1", {"a"}, TimePolicies)
    \/ AliasInsertSteps("p1")
    \/ SweeperSteps("t1")

\* With a fair sweeper and a fair clock: setInterval keeps firing the callback,
\* the store answers every deleteOne, the event loop resumes every callback
\* whose await has settled, and time advances up to MaxTime.
SpecOneTickFair ==
    /\ Init
    /\ [][NextOneTick]_vars
    /\ WF_vars(Tick)
    /\ WF_vars(SweeperSteps("t1"))

InsertSteps(p) ==
    \/ InsertDedup(p) \/ InsertGenerate(p) \/ AliasInsertSteps(p)

\* The server with one request and one sweeper callback in flight at a time,
\* and every kind of client: with an alias or without (the server then
\* generates the code), any expiry policy, forceNew or not.
NextSeqAll ==
    \/ Tick
    \/ LookupStart("p1")
    \/ LookupSteps("p1")
    \/ InsertStart("p1", {"a", ""}, Policies)
    \/ InsertSteps("p1")
    \/ SweeperSteps("t1")

SpecSeqAll == Init /\ [][NextSeqAll]_vars

\* The server after some work: rounds times a client has shortened a url with
\* expiry by time under an alias outside SysCodes and the sweeper has expired
\* it, and then misses times a client has looked up a code outside SysCodes
\* that no record has.  The containers and the store are empty again and the
\* logs hold the last records of that work.
BusyRounds == {16, 17}
BusyMisses == {82, 83, 90}

\* The alias of round i and the code of lookup i.
OldCode(i) == AllCodes[3 + (i % 6)]

\* The last records of a log.
Newest(log, n) == IF Len(log) > n THEN SubSeq(log, Len(log) - n + 1, Len(log)) ELSE log

RoundHeapRecords(rounds) ==
    [i \in 1..(3 * rounds) |->
        LogCall(<<"HEAP_INSERT", "HEAP_EXTRACT", "TTL_EXPIRED">>[1 + ((i - 1) % 3)],
                OldCode((i - 1) \div 3))]

RoundRecords(rounds) == [i \in 1..rounds |-> LogCall("EXPIRED", OldCode(i - 1))]

MissRecords(misses) == [i \in 1..misses |-> LogCall("MISS", OldCode(i))]

InitBusy ==
    /\ heap = <<>>
    /\ urlCache = <<>>
    /\ recency = <<>>
    /\ store = [k \in SysCodes |-> <<>>]
    /\ now = 0
    /\ req = [p \in Procs |-> IdleReq]
    /\ sw = [t \in Ticks |-> IdleTick]
    /\ nreq = 0
    /\ latest = [k \in SysCodes |-> 0]
    /\ last = SysEvent("none", "")
    /\ \E rounds \in BusyRounds, misses \in BusyMisses :
          /\ heapOperationLog = Newest(RoundHeapRecords(rounds), 50)
          /\ operationLog = Newest(RoundRecords(rounds) \o MissRecords(misses), 100)

\* The busy server with one request and one sweeper callback in flight at a
\* time, and clients that shorten under one alias with expiry by time.
SpecBusy == InitBusy /\ [][NextOneTick]_vars

\* The server with two requests in flight, one sweeper callback, and clients
\* that shorten under one alias with expiry by time or by clicks.
NextClicks ==
    \/ Tick
    \/ \E p \in Procs :
          \/ LookupStart(p)
          \/ LookupSteps(p)
          \/ InsertStart(p, {"a"}, TimePolicies \cup ClickPolicies)
          \/ AliasInsertSteps(p)
    \/ SweeperSteps("t1")

SpecClicks == Init /\ [][NextClicks]_vars

\* The server with one request in flight, timer callbacks that overlap, and
\* clients that shorten under either alias with expiry after one unit of time.
NextTwoTicks ==
    \/ Tick
    \/ LookupStart("p1")
    \/ LookupSteps("p1")
    \/ InsertStart("p1", SysCodes, {[type |-> "time", value |-> 1]})
    \/ AliasInsertSteps("p1")
    \/ \E t \in Ticks : SweeperSteps(t)

SpecTwoTicks == Init /\ [][NextTwoTicks]_vars

\* The server after POST /shorten { url: "u1", alias: "a" } with a policy and
\* the first GET /a, both at instant 0 and answered before anything else ran:
\* "a" is stored with one click, cached, and scheduled when the policy is time.
ServedDoc(pol) ==
    [NewUrlData([IdleReq EXCEPT !.code = "a", !.url = "u1", !.policy = pol], 0)
        EXCEPT !.clicks = 1]

InitServed ==
    /\ now = 0
    /\ req = [p \in Procs |-> IdleReq]
    /\ sw = [t \in Ticks |-> IdleTick]
    /\ nreq = 0
    /\ last = SysEvent("none", "")
    /\ \E pol \in TimePolicies \cup ClickPolicies :
          LET d == ServedDoc(pol)
              h == IF registers(d) THEN insert(<<>>, "a", d.expiresAt)
                                   ELSE [heap |-> <<>>, logged |-> <<>>]
              c == addToCache(<<>>, "a", d.url)
          IN  /\ store = [k \in SysCodes |-> IF k = "a" THEN <<d>> ELSE <<>>]
              /\ latest = [k \in SysCodes |-> IF k = "a" THEN d.expiresAt ELSE 0]
              /\ heap = h.heap
              /\ heapOperationLog = logHeapOperations(<<>>, h.logged)
              /\ urlCache = c.cache
              /\ recency = KeyOrder(c.cache)
              /\ operationLog = logOperations(<<>>, <<LogCall("MISS", "a")>> \o c.logged)

\* From there, one request and one sweeper callback in flight at a time.
SpecServed == InitServed /\ [][NextOneTick]_vars

(***************************************************************************)
(* The server with a store that may fail: an awaited store call rejects.   *)
(* The handlers wrap their code in try/catch and answer 500; the sweeper's *)
(* callback has no catch, so its rejection ends the callback.              *)
(***************************************************************************)
DbSaveNewRejectsAfterInsert(p) ==
    /\ req[p].pc = "save"
    /\ LET r == IF registers(req[p].data[1])
                THEN insert(heap, req[p].code, req[p].data[1].expiresAt)
                ELSE [heap |-> heap, logged |-> <<>>]
       IN  /\ heap' = r.heap
           /\ heapOperationLog' = logHeapOperations(heapOperationLog, r.logged)
    /\ req' = [req EXCEPT ![p] = IdleReq]
    /\ last' = Respond("InsertRespond", req[p].code, "500", req[p])
    /\ UNCHANGED <<urlCache, store, now, sw, nreq, latest, recency, operationLog>>

\* newUrl.save() rejects: the catch block of POST /shorten answers 500
DbSaveNewRejects(p) ==
    /\ req[p].pc = "save"
    /\ req' = [req EXCEPT ![p] = IdleReq]
    /\ last' = Respond("InsertRespond", req[p].code, "500", req[p])
    /\ UNCHANGED <<heap, urlCache, store, now, sw, nreq, latest, recency,
                   operationLog, heapOperationLog>>

\* a store call awaited by GET /:shortCode rejects: the catch block answers 500
DbLookupRejects(p) ==
    /\ req[p].pc \in {"hitFind", "missFind", "hitDelete", "missDelete", "hitInc", "missSave"}
    /\ req' = [req EXCEPT ![p] = IdleReq]
    /\ last' = RespondNoData("LookupRespond", req[p].code, "500", req[p])
    /\ UNCHANGED <<heap, urlCache, store, now, sw, nreq, latest, recency,
                   operationLog, heapOperationLog>>

\* Url.deleteOne awaited by the sweeper rejects: the callback ends there, with
\* the entry it extracted in no container
DbSweepDeleteRejects(t) ==
    /\ sw[t].pc = "del"
    /\ sw' = [sw EXCEPT ![t] = IdleTick]
    /\ last' = [SysEvent("SweepRejected", sw[t].expired[1].shortCode)
                   EXCEPT !.extracted = sw[t].expired,
                          !.cached = MapHas(urlCache, sw[t].expired[1].shortCode)]
    /\ UNCHANGED <<heap, urlCache, store, now, req, nreq, latest, recency,
                   operationLog, heapOperationLog>>

\* One request and one sweeper callback in flight at a time, clients that
\* shorten under one alias with expiry by time, and a store that may fail.
NextStoreFails ==
    \/ NextOneTick
    \/ DbSaveNewRejects("p1")
    \/ DbLookupRejects("p1")
    \/ DbSweepDeleteRejects("t1")

SpecStoreFails == Init /\ [][NextStoreFails]_vars

(***************************************************************************)
(* Properties of the server.                                               *)
(***************************************************************************)
HeapKeys == {heap[i].shortCode : i \in 1..Len(heap)}

AllInFuture(h, t) == \A i \in 1..Len(h) : h[i].expiresAt > t

\* C1: a Lookup that starts after the expiry instant of the newest time-based
\* record of its key has passed never serves the value: it answers 410
\* (Expired) or 404 (NotFound), never a redirect.
C1_ReconciliationSafety ==
    (last.op = "LookupRespond" /\ last.stale) => last.outcome \in {"410", "404"}

\* C9: right after a Lookup has answered 410 for a time-based record, the
\* heap holds no entry for that key.
C9_LookupReconcilesScheduler ==
    (last.op = "LookupRespond" /\ last.outcome = "410" /\ last.reason = "time")
        => last.key \notin HeapKeys

\* What one pass of the sweeper's loop does to the heap of the current state:
\* it extracts nothing when the heap is empty or every entry is still in the
\* future, and otherwise it extracts one entry, a minimum, due at or before now.
SweepLoopStopsAtFuture ==
    LET r == sweepLoop(heap, now)
    IN  IF r.expired = <<>>
        THEN r.heap = heap /\ AllInFuture(heap, now)
        ELSE /\ r.expired[1].expiresAt <= now
             /\ IsMinimumOf(r.expired[1], heap)
             /\ SameEntries(<<r.expired[1]>> \o r.heap, heap)

\* An entry a sweeper callback holds was due when it was extracted.
SweepHoldsDueEntry ==
    \A t \in Ticks : sw[t].pc # "idle" => sw[t].expired[1].expiresAt <= now

\* The steps of the sweeper callback in slot t.
SweepStepOf(t) ==
    LET k == sw[t].expired[1].shortCode
    IN  /\ (sw[t].pc # "del" /\ sw'[t].pc = "del")
            => /\ sw'[t].expired[1].expiresAt <= now
               /\ IsMinimumOf(sw'[t].expired[1], heap)
               /\ SameEntries(sw'[t].expired \o heap', heap)
        /\ (sw[t].pc = "del" /\ sw'[t].pc = "deleted") => store'[k] = <<>>
        /\ (sw[t].pc = "deleted" /\ sw'[t].pc # "deleted")
            => /\ ~MapHas(urlCache', k)
               /\ \A c \in CacheKeys(urlCache) \ {k} : MapHas(urlCache', c)
        /\ (sw[t].pc = "deleted" /\ sw'[t].pc = "idle") => AllInFuture(heap', now)

\* An entry leaves the heap only when a sweeper callback extracts it.
OnlySweeperExtracts ==
    Len(heap') < Len(heap) => \E t \in Ticks : sw[t].pc # "del" /\ sw'[t].pc = "del"

\* C10: in a sweeper tick every extracted entry is a minimum of the heap due at
\* or before the time it is checked; its key is then deleted from the store
\* and removed from the cache; no entry with a future expiry instant leaves the
\* heap; and when the tick ends the heap is empty or all its entries are in
\* the future.
C10_SweeperTick ==
    /\ [](SweepLoopStopsAtFuture /\ SweepHoldsDueEntry)
    /\ [][OnlySweeperExtracts /\ \A t \in Ticks : SweepStepOf(t)]_vars

\* A tick has removed a cached key whose record it deleted and has ended with
\* an entry left in the heap, still in the future.
C10_Witness ==
    /\ last.op = "SweepResume"
    /\ last.cached
    /\ last.ended
    /\ ~MapHas(urlCache, last.key)
    /\ store[last.key] = <<>>
    /\ heap # <<>>
    /\ AllInFuture(heap, now)

\* The heap holds the entry (k, e).
Scheduled(k, e) == Entry(k, e) \in Range(heap)

\* The entry (k, e) is reconciled: it is out of the heap, k is out of the cache
\* and the store holds no record of k with that expiry instant.
Reconciled(k, e) ==
    /\ ~Scheduled(k, e)
    /\ ~MapHas(urlCache, k)
    /\ (store[k] = <<>> \/ store[k][1].expiresAt # e)

\* C11: with a fair sweeper and a clock that advances, every entry in the heap
\* whose expiry instant the clock reaches is eventually extracted and its key is
\* then out of the heap, the cache and the store; and every sweeper callback
\* that started eventually ends.
C11_SweeperLiveness ==
    /\ \A k \in SysCodes : \A e \in 1..MaxTime : Scheduled(k, e) ~> Reconciled(k, e)
    /\ \A t \in Ticks : (sw[t].pc # "idle") ~> (sw[t].pc = "idle")

\* A tick that started when the clock had reached the expiry instant of a cached
\* key has ended, and the key is out of the heap, the cache and the store.
C11_Witness ==
    /\ last.op = "SweepResume"
    /\ last.cached
    /\ last.ended
    /\ now = MaxTime
    /\ heap = <<>>
    /\ urlCache = <<>>
    /\ store[last.key] = <<>>
    /\ latest[last.key] = MaxTime

\* Where a POST /shorten handler can be.
InsertPcs == {"dedupFound", "aliasFound", "genFound", "save", "saved"}

\* The steps of the POST /shorten handler in slot p: what each of them does
\* to the store, the heap and the cache.
InsertStepOf(p) ==
    LET k == req[p].code
        d == req[p].data[1]
        from(pcs) == req'[p].pc # req[p].pc /\ req[p].pc \in pcs
    IN  /\ (req'[p].pc # req[p].pc /\ (req[p].pc \in InsertPcs \/ req'[p].pc \in InsertPcs))
            => urlCache' = urlCache
        /\ from(InsertPcs \ {"saved"}) => heap' = heap
        /\ from(InsertPcs \ {"save"}) => store' = store
        /\ (from({"aliasFound", "genFound"}) /\ req'[p].pc = "save")
            => /\ req'[p].data[1].shortCode = k
               /\ req'[p].data[1].url = req[p].url
               /\ (req'[p].data[1].expiryType = "time") = (req[p].policy.type = "time")
               /\ req[p].policy.type = "time"
                    => req'[p].data[1].expiresAt = now + req[p].policy.value
        /\ (from({"save"}) /\ req'[p].pc = "saved")
            => store' = [store EXCEPT ![k] = <<d>>]
        /\ from({"saved"})
            => /\ last'.outcome = "200"
               /\ d.expiryType = "time"
                    => SameEntries(heap', Append(heap, Entry(k, d.expiresAt)))
               /\ d.expiryType # "time" => heap' = heap

\* C12: an Insert that creates a record writes it to the store, adds the entry
\* (key, expiry instant) to the heap if and only if the policy is time-based,
\* and leaves the cache as it is; with a click-based policy or none the heap is
\* unchanged.
C12_InsertFrame == [][\A p \in Procs : InsertStepOf(p)]_vars

\* An Insert with a time-based policy has answered 200 while the cache held a
\* key: its record is in the store and its entry in the heap.
C12_Witness ==
    /\ last.op = "InsertRespond"
    /\ last.outcome = "200"
    /\ last.reason = "time"
    /\ store[last.key] # <<>>
    /\ Scheduled(last.key, store[last.key][1].expiresAt)
    /\ urlCache # <<>>

\* The steps of the GET /:shortCode handler in slot p after a cache miss.
MissStepOf(p) ==
    LET k == req[p].code
        answers == req[p].pc # "idle" /\ req'[p].pc = "idle"
    IN  /\ (req[p].pc = "missFound" /\ req[p].data = <<>> /\ answers)
            => /\ last'.outcome = "404"
               /\ urlCache' = urlCache
               /\ heap' = heap
        /\ (req[p].pc = "missFound" /\ req'[p].pc = "missSave")
            => /\ ~isExpired(req[p].data[1], now)
               /\ MapHas(urlCache', k)
               /\ urlCache'[Len(urlCache')] = [key |-> k, url |-> req[p].data[1].url]
        /\ (req[p].pc \in {"missSaved", "missSaveLost"} /\ answers)
            => /\ last'.outcome = "redirect"
               /\ last'.key = k
        /\ (req[p].pc = "idle" /\ req'[p].pc # "idle" /\ req'[p].alias = ""
                /\ req'[p].url = "" /\ MapHas(urlCache, req'[p].code))
            => req'[p].pc = "hitFind"

\* C13: a Lookup that misses the cache and finds no record answers NotFound
\* with cache and heap unchanged; one that finds a live record puts the key and
\* its url at the most-recently-used end of the cache and answers with the
\* redirect to the url; a Lookup of a key the cache holds takes the hit path.
C13_MissPath == [][\A p \in Procs : MissStepOf(p)]_vars

\* C14: removing a key a second time, the key being absent, changes nothing:
\* ttlHeap.remove returns false and leaves the heap and its log as they were,
\* the removal from urlCache leaves the Map, its order and its log as they
\* were.
C14_RemoveIdempotent ==
    [][/\ (last'.op = "remove" /\ last'.again /\ last'.key \notin HeapKeys)
            => /\ last'.ok = FALSE
               /\ heap' = heap
               /\ heapOperationLog' = heapOperationLog
               /\ operationLog' = operationLog
               /\ urlCache' = urlCache
       /\ (last'.op = "delete" /\ last'.again)
            => /\ ~MapHas(urlCache, last'.key)
               /\ urlCache' = urlCache
               /\ operationLog' = operationLog
               /\ heapOperationLog' = heapOperationLog
               /\ heap' = heap]_vars

\* A key was removed from the heap twice in a row, the second time absent, with
\* entries left in the heap, keys in the cache and records in both logs.
C14_Witness ==
    /\ last.op = "remove"
    /\ last.again
    /\ ~last.ok
    /\ last.key \notin HeapKeys
    /\ heap # <<>>
    /\ urlCache # <<>>
    /\ operationLog # <<>>
    /\ heapOperationLog # <<>>

\* The record d of key k is gone: k is out of the cache, the entry of d is out
\* of the heap and d is out of the store.
Gone(k, d) ==
    /\ ~MapHas(urlCache, k)
    /\ ~Scheduled(k, d.expiresAt)
    /\ (store[k] = <<>> \/ store[k][1].id # d.id)

\* Nobody is still expiring key k: no handler is, and the sweeper's callbacks
\* have ended.
Settled(k) ==
    /\ \A p \in Procs : ~Expiring(req[p], k)
    /\ \A t \in Ticks : sw[t].pc = "idle"

\* The steps of a handler and of a callback that expire a key: the delete of a
\* record that is gone and the removal of a key the cache does not hold change
\* nothing, and the handler answers 410.
ExpiryStepOf(p, t) ==
    /\ (req[p].pc \in {"hitDelete", "missDelete"} /\ req'[p].pc # req[p].pc
            /\ store[req[p].code] = <<>>)
        => store' = store
    /\ (req[p].pc = "missFound" /\ req'[p].pc = "missDelete"
            /\ ~MapHas(urlCache, req[p].code))
        => urlCache' = urlCache
    /\ (req[p].pc \in {"hitDeleted", "missDeleted"} /\ req'[p].pc = "idle")
        => /\ last'.op = "LookupRespond"
           /\ last'.outcome = "410"
    /\ (sw[t].pc = "del" /\ sw'[t].pc = "deleted" /\ store[sw[t].expired[1].shortCode] = <<>>)
        => store' = store
    /\ (sw[t].pc = "deleted" /\ sw'[t] # sw[t] /\ ~MapHas(urlCache, sw[t].expired[1].shortCode))
        => urlCache' = urlCache

\* C15: when a sweeper callback and a Lookup expire the same key at the same
\* time, the Lookup answers 410 and the callback goes on; the delete and the
\* cache removal of the one that comes second change nothing; and when the
\* Lookup has answered and the callback has ended the key is out of the cache,
\* the entry of the record they expired is out of the heap and the record is
\* out of the store.
C15_ExpiryRace ==
    /\ []((last.op \in {"LookupRespond", "SweepResume"} /\ last.raced # <<>>
                /\ Settled(last.raced[1].shortCode))
            => Gone(last.raced[1].shortCode, last.raced[1]))
    /\ [][\A p \in Procs, t \in Ticks : ExpiryStepOf(p, t)]_vars

\* A Lookup has answered 410 for a key a sweeper callback held meanwhile, after
\* the callback was done with the key: the callback's delete came first.
C15_Witness ==
    /\ last.op = "LookupRespond"
    /\ last.outcome = "410"
    /\ last.raced # <<>>
    /\ Settled(last.key)
    /\ Gone(last.key, last.raced[1])
    /\ store[last.key] = <<>>
    /\ last.key \notin HeapKeys
    /\ heap # <<>>

\* C16: while a sweeper callback is between the extraction of an entry and the
\* removal of its key from the cache, no handler of a request takes a step.
C16_SweeperCriticalSection ==
    [][(\E t \in Ticks : sw[t].pc # "idle" /\ sw'[t].pc # "idle")
            => \A p \in Procs : req'[p].pc = req[p].pc]_vars

\* C17: in every reachable state, every key of the cache whose record in the
\* store is time-based has an entry in the heap.
C17_CachedTimedKeyScheduled ==
    \A k \in CacheKeys(urlCache) :
        (store[k] # <<>> /\ store[k][1].expiryType = "time") => k \in HeapKeys

\* No request handler and no sweeper callback is in flight.
AtRest ==
    /\ \A p \in Procs : req[p].pc = "idle"
    /\ \A t \in Ticks : sw[t].pc = "idle"

\* C18: in every state with no operation in progress, every key of the cache
\* has a record in the store.
C18_CachedKeyStored ==
    AtRest => \A k \in CacheKeys(urlCache) : store[k] # <<>>

\* log2 is log after at least atLeast and at most atMost appends to a log that
\* keeps limit records: the records of log in their order, then the new ones,
\* less the oldest ones beyond limit.
AppendedTo(log, log2, limit, atLeast, atMost) ==
    \E n \in atLeast..atMost :
        /\ n <= Len(log2)
        /\ log2 = Newest(log \o SubSeq(log2, Len(log2) - n + 1, Len(log2)), limit)

\* A step that calls logOperation: a Lookup answers 404 or 410, or the sweeper
\* has expired a key.
LogsOperation == last'.op = "SweepResume" \/ last'.outcome \in {"404", "410"}

\* A step that calls logHeapOperation: the sweeper has expired a key, or an
\* Insert has registered a time-based record.
LogsHeapOperation ==
    last'.op = "SweepResume" \/ (last'.outcome = "200" /\ last'.reason = "time")

\* C19: operationLog never holds more than 100 records and heapOperationLog
\* never more than 50; every step appends its records at the end of each log,
\* in the order of the calls, and drops from the front exactly the records
\* beyond the limit.
C19_LogsBounded ==
    /\ [](Len(operationLog) <= 100 /\ Len(heapOperationLog) <= 50)
    /\ [][/\ AppendedTo(operationLog, operationLog', 100,
                        IF LogsOperation THEN 1 ELSE 0, 3)
          /\ AppendedTo(heapOperationLog, heapOperationLog', 50,
                        IF LogsHeapOperation THEN 1 ELSE 0, 2)]_vars

\* Both logs are full and the newest records of each are of this run: older
\* records were dropped to make room for them.
C19_Witness ==
    /\ Len(operationLog) = 100
    /\ operationLog[100].key \in SysCodes
    /\ operationLog[99].key \in SysCodes
    /\ operationLog[1].key \notin SysCodes
    /\ Len(heapOperationLog) = 50
    /\ heapOperationLog[50].key \in SysCodes
    /\ heapOperationLog[49].key \in SysCodes
    /\ heapOperationLog[48].key \in SysCodes
    /\ heapOperationLog[1].key \notin SysCodes

\* The kinds of record the two logs are said to hold.
RecordKinds ==
    {"SET", "HIT", "MISS", "EVICT", "EXPIRED", "DEDUP", "HEAP_INSERT", "HEAP_EXTRACT"}

\* C20: every record of operationLog and of heapOperationLog has a type in
\* RecordKinds.  A record stays in its log until it is the oldest one, so a
\* record of another type is seen in the state after its append.
C20_RecordKinds ==
    /\ \A i \in 1..Len(operationLog) : operationLog[i].type \in RecordKinds
    /\ \A i \in 1..Len(heapOperationLog) : heapOperationLog[i].type \in RecordKinds

\* C21: when newUrl.save() fails in POST /shorten the handler answers 500 and
\* ends (it does not save again), and the step changes neither the heap nor
\* the cache; the heap holds no entry of a key no record was ever stored under.
C21_StoreWriteFails ==
    /\ [][\A p \in Procs :
            (req[p].pc = "save" /\ req'[p].pc # "save" /\ store' = store)
                => /\ req'[p] = IdleReq
                   /\ last'.op = "InsertRespond" /\ last'.outcome = "500"
                   /\ heap' = heap
                   /\ urlCache' = urlCache]_vars
    /\ [](\A k \in HeapKeys : latest[k] # 0)

\* A save of a time-based record has failed and nothing was ever stored under
\* its key.
C21_Witness ==
    /\ last.op = "InsertRespond"
    /\ last.outcome = "500"
    /\ last.reason = "time"
    /\ latest[last.key] = 0
    /\ store[last.key] = <<>>
    /\ heap = <<>>

\* C22: after addToCache no key is in the cache twice.  A Put of a key already
\* present removes no other key, also from a full cache, and appends one SET
\* record; a Put of a new key into a full cache appends an EVICT record of the
\* key it evicts and then a SET record of the new key; a Put of a new key into
\* a cache with room appends one SET record.
C22_PutLogs ==
    [][last'.op = "addToCache" =>
        LET k == last'.key
            set == LogCall("SET", k)
        IN  /\ Cardinality(CacheKeys(urlCache')) = Len(urlCache')
            /\ MapHas(urlCache, k) =>
                  /\ CacheKeys(urlCache') = CacheKeys(urlCache)
                  /\ operationLog' = Append(operationLog, set)
            /\ (~MapHas(urlCache, k) /\ Len(urlCache) = MAX_CACHE_SIZE) =>
                  /\ \E old \in CacheKeys(urlCache) :
                        /\ CacheKeys(urlCache') = (CacheKeys(urlCache) \ {old}) \cup {k}
                        /\ operationLog' = operationLog \o <<LogCall("EVICT", old), set>>
            /\ (~MapHas(urlCache, k) /\ Len(urlCache) < MAX_CACHE_SIZE) =>
                  /\ CacheKeys(urlCache') = CacheKeys(urlCache) \cup {k}
                  /\ operationLog' = Append(operationLog, set)]_vars

\* A Put of a key already present into a full cache, right after the Put that
\* brought the key into the full cache: the log ends with EVICT, SET, SET.
C22_Witness ==
    /\ last.op = "addToCache"
    /\ Len(urlCache) = MAX_CACHE_SIZE
    /\ Len(operationLog) >= MAX_CACHE_SIZE + 3
    /\ LET n == Len(operationLog)
       IN  /\ operationLog[n] = LogCall("SET", "a")
           /\ operationLog[n - 1] = LogCall("SET", "a")
           /\ operationLog[n - 2].type = "EVICT"

\* The records a step appends to operationLog, while the log has room.
Logged == SubSeq(operationLog', Len(operationLog) + 1, Len(operationLog'))

\* C23: getFromCache of a key not in the cache returns null, leaves the cache
\* as it is and appends no record; getFromCache of a key in the cache returns
\* its url and appends one HIT record.  A GET /:shortCode that missed the cache
\* appends one MISS record of its key, in the step that follows the store's
\* answer to its findOne, and no other step appends a MISS record.
C23_GetLogs ==
    [][\A p \in Procs :
        LET r == req[p]
            q == req'[p]
        IN  /\ (r.pc = "idle" /\ q.pc \in {"hitFind", "missFind"}) =>
                  IF MapHas(urlCache, q.code)
                  THEN /\ q.pc = "hitFind"
                       /\ q.url = MapValue(urlCache, q.code)
                       /\ operationLog' = Append(operationLog, LogCall("HIT", q.code))
                  ELSE /\ q.pc = "missFind"
                       /\ urlCache' = urlCache
                       /\ operationLog' = operationLog
            /\ (r.pc = "missFound" /\ q.pc # "missFound") =>
                  /\ Logged # <<>>
                  /\ Head(Logged) = LogCall("MISS", r.code)
                  /\ \A i \in 2..Len(Logged) : Logged[i].type # "MISS"
            /\ (\A o \in Procs : req[o].pc = "missFound" => req'[o].pc = "missFound") =>
                  \A i \in 1..Len(Logged) : Logged[i].type # "MISS"]_vars

\* A GET of "a" has hit the cache and awaits the store; the GET before it had
\* missed the cache and had put "a" into it.
C23_Witness ==
    /\ req["p1"].pc = "hitFind"
    /\ req["p1"].url = "u1"
    /\ operationLog =
          <<LogCall("MISS", "a"), LogCall("SET", "a"), LogCall("HIT", "a")>>

\* The policy of the record d has run out at instant t: its instant has passed
\* or its clicks have reached its threshold.
RunOut(d, t) ==
    \/ d.expiryType = "time" /\ t > d.expiresAt
    \/ d.expiryType = "clicks" /\ d.clicks >= d.maxClicks

\* The request answered last was a GET of k that hit the cache and answered
\* 410: its HIT record is followed by EXPIRED records only.
HitAnsweredExpired(k) ==
    /\ last.op = "LookupRespond" /\ last.key = k /\ last.outcome = "410"
    /\ \E i \in 1..Len(operationLog) :
          /\ operationLog[i] = LogCall("HIT", k)
          /\ \A j \in (i + 1)..Len(operationLog) : operationLog[j].type = "EXPIRED"

\* C24: a GET that hit the cache and read a record whose policy has run out
\* (by time or by clicks) removes the key from the cache and has the record
\* deleted without changing it first, then appends one EXPIRED record and
\* answers 410, with the key in neither the cache nor the store; with one
\* request at a time, the request after it, when a GET of the same key,
\* answers 404.
C24_HitExpired ==
    /\ [][\A p \in Procs :
            LET r == req[p]
                k == r.code
            IN  /\ (r.pc = "hitFound" /\ r.data # <<>> /\ RunOut(r.data[1], now)
                        /\ req'[p].pc # "hitFound") =>
                      /\ req'[p].pc = "hitDelete"
                      /\ ~MapHas(urlCache', k)
                      /\ store' = store
                /\ (r.pc = "hitDelete" /\ req'[p].pc # "hitDelete") =>
                      /\ req'[p].pc = "hitDeleted"
                      /\ store'[k] = <<>>
                /\ (r.pc = "hitDeleted" /\ req'[p].pc # "hitDeleted") =>
                      /\ last' = Respond("LookupRespond", k, "410", r)
                      /\ operationLog' = Append(operationLog, LogCall("EXPIRED", k))
                      /\ ~MapHas(urlCache', k)
                      /\ store'[k] = <<>>]_vars
    /\ \A k \in SysCodes, n \in 0..MaxReq :
          [](HitAnsweredExpired(k) /\ nreq = n =>
                [](last.op = "LookupRespond" /\ last.key = k /\ nreq = n + 1
                      => last.outcome = "404"))

\* A GET of "a" has answered 404 right after a GET of "a" that hit the cache
\* and answered 410 for a record expired by clicks.
C24_Witness ==
    /\ last.op = "LookupRespond" /\ last.key = "a" /\ last.outcome = "404"
    /\ nreq = 2
    /\ operationLog =
          <<LogCall("MISS", "a"), LogCall("SET", "a"), LogCall("HIT", "a"),
            LogCall("EXPIRED", "a"), LogCall("MISS", "a")>>
    /\ heap = <<>>

\* The handlers that have found the click-based record d live, have had its
\* click written and will answer with a redirect in their next step.
Serving(d) ==
    {p \in Procs : /\ req[p].pc \in {"hitInced", "missSaved"}
                   /\ req[p].data # <<>>
                   /\ req[p].data[1].id = d.id
                   /\ req[p].data[1].expiryType = "clicks"}

\* C25: at most N GETs serve the url of a click-based record with threshold
\* N, however they interleave.  Every GET that serves it passes through the
\* step before its redirect, so at no instant are more than N GETs of one
\* record at that step.
C25_ClickThreshold ==
    \A p \in Procs :
        (req[p].data # <<>> /\ req[p].pc \in {"hitInced", "missSaved"}) =>
            LET d == req[p].data[1]
            IN  d.expiryType = "clicks" => Cardinality(Serving(d)) <= d.maxClicks

\* C26: at every instant the sweeper's test of a time-based record's entry and
\* isExpired of the record give the same verdict, also at the expiry instant
\* itself.
C26_ExpiryTestsAgree ==
    \A k \in SysCodes :
        (store[k] # <<>> /\ store[k][1].expiryType = "time") =>
            (sweepDue(Entry(k, store[k][1].expiresAt), now) <=> isExpired(store[k][1], now))

\* C27: in every reachable state the heap holds at most one entry of each key.
C27_OneEntryPerKey ==
    \A i, j \in 1..Len(heap) : heap[i].shortCode = heap[j].shortCode => i = j

\* The record d is time-based and its expiry instant is t or earlier.
PastDue(d, t) == d.expiryType = "time" /\ d.expiresAt # 0 /\ d.expiresAt <= t

\* C28: a record the sweeper's deleteOne deletes is time-based with an expiry
\* instant that has passed, and a key the sweeper removes from the cache has
\* no record or a record of that kind.
C28_SweeperDeletesOnlyExpired ==
    [][\A t \in Ticks :
        LET k == sw[t].expired[1].shortCode
        IN  /\ (sw[t].pc = "del" /\ sw'[t].pc = "deleted" /\ store[k] # <<>>)
                  => PastDue(store[k][1], now)
            /\ (sw[t].pc = "deleted" /\ sw'[t].pc # "deleted"
                    /\ MapHas(urlCache, k) /\ store[k] # <<>>)
                  => PastDue(store[k][1], now)]_vars

\* The callback in slot t extracts an entry in this step.
Extracts(t) == sw[t].pc # "del" /\ sw'[t].pc = "del"

\* C29: whenever a sweeper callback extracts, also while another callback
\* awaits the store or a request is in flight, the heap is not empty, the
\* entry it gets is the one peek returns there, and one occurrence of that
\* entry leaves the heap while every other entry stays; no step extracts for
\* two callbacks, and the heap loses an entry only to the callback that
\* extracts it.
C29_OverlappingTicks ==
    [][/\ \A t \in Ticks :
            Extracts(t) =>
                /\ heap # <<>>
                /\ sw'[t].expired # <<>>
                /\ sw'[t].expired = peek(heap).ret
                /\ SameEntries(sw'[t].expired \o heap', heap)
       /\ \A t, u \in Ticks : Extracts(t) /\ Extracts(u) => t = u
       /\ (\A t \in Ticks : ~Extracts(t)) =>
            \A e \in Range(heap) : Count(heap', e) >= Count(heap, e)]_vars

\* Two callbacks overlap, each holding an entry, while a request is in flight.
C29_Witness ==
    /\ sw["t1"].pc = "del"
    /\ sw["t2"].pc = "del"
    /\ sw["t1"].expired[1].shortCode # sw["t2"].expired[1].shortCode
    /\ req["p1"].pc # "idle"

\* C30: right after the sweeper's deleteOne has failed for an entry, the entry
\* is in the heap, so that a later tick finds it again.
C30_SweepDeleteFails ==
    last.op = "SweepRejected" => last.extracted[1] \in Range(heap)

=============================================================================
